---- MODULE Spec2Model ----
(***************************************************************************)
(* A one-round game of Blackjack (blackjack.py, cards.py): hand            *)
(* evaluation, the players' decisions, the dealer's rule and settlement.   *)
(***************************************************************************)
EXTENDS Integers, Sequences, FiniteSets

(* ---------------------------- bounds ----------------------------------- *)
\* Cards dealt in one round; dealing stops being explored beyond it.
MaxDealt == 7
\* Cards of a hand in the hand-evaluation specification.
MaxHandLen == 4

(* ---------------------------- cards.py --------------------------------- *)
\* Value(IntEnum): 2..10, ACE = 11, JACK = 12, QUEEN = 13, KING = 14
ACE == 11
Values == 2..14

\* pip = {v : 11 if v == ACE else (v.value if v < 10 else 10)}
pip(v) == IF v = ACE THEN 11 ELSE IF v < 10 THEN v ELSE 10

\* shuffle: the rounds explored are those whose shuffle puts only Aces, Tens,
\* Kings and Fives among the first MaxDealt cards
DealValues == {11, 10, 14, 5}

(* ---------------------------- helpers ---------------------------------- *)
RECURSIVE SeqSum(_)
SeqSum(s) == IF s = <<>> THEN 0 ELSE Head(s) + SeqSum(Tail(s))

Range(s) == {s[i] : i \in 1..Len(s)}
SetMax(S) == CHOOSE x \in S : \A y \in S : y <= x
SetMin(S) == CHOOSE x \in S : \A y \in S : x <= y

(* ---------------------------- PlayerHand ------------------------------- *)
\* PlayerHand.__init__
NewHand == [cards |-> <<>>, pips |-> <<>>, value |-> 0, flags |-> {}]

\* Demote with every Ace demoted from the stored value, not from the running one
RECURSIVE Demote_flat(_, _)
Demote_flat(ps, cur) ==
    IF ps = <<>> THEN <<>>
    ELSE IF Head(ps) # 11 THEN Demote_flat(Tail(ps), cur)
    ELSE <<cur - 10>> \o Demote_flat(Tail(ps), cur)

\* the loop of allValues: one further total per pip equal to 11
RECURSIVE Demote(_, _)
Demote(ps, cur) ==
    IF ps = <<>> THEN <<>>
    ELSE IF Head(ps) # 11 THEN Demote(Tail(ps), cur)
    ELSE <<cur - 10>> \o Demote(Tail(ps), cur - 10)

\* PlayerHand.allValues: reads the stored value, flags and pips
allValues(h) ==
    <<h.value>> \o (IF "HAS_ACE" \notin h.flags THEN <<>> ELSE Demote(h.pips, h.value))

\* PlayerHand.minValue
minValue(h) == SetMin(Range(allValues(h)))

\* bestValue falling back to the smallest total instead of the stored value
bestValue_min(h) ==
    LET ok == {v \in Range(allValues(h)) : v <= 21}
    IN  IF ok = {} THEN minValue(h) ELSE SetMax(ok)

\* PlayerHand.bestValue: max((v for v in allValues() if v <= 21), default=value)
bestValue(h) ==
    LET ok == {v \in Range(allValues(h)) : v <= 21}
    IN  IF ok = {} THEN h.value ELSE SetMax(ok)

\* evaluate setting BUST from the stored value (every Ace at 11)
evaluate_raw(h) ==
    LET ps == [i \in 1..Len(h.cards) |-> pip(h.cards[i])]
        h0 == [h EXCEPT !.pips = ps, !.value = SeqSum(ps), !.flags = {}]
        h1 == IF Len(ps) = 2 /\ ps[1] = ps[2]
              THEN [h0 EXCEPT !.flags = @ \cup {"PAIR"}] ELSE h0
        h2a == [h1 EXCEPT !.flags = @ \cup {"HAS_ACE"}]
        h2 == IF 11 \in Range(ps)
              THEN (IF minValue(h2a) < 21
                    THEN [h2a EXCEPT !.flags = @ \cup {"SOFT"}] ELSE h2a)
              ELSE h1
        h3 == IF h2.value > 21
              THEN [h2 EXCEPT !.flags = @ \cup {"BUST"}] ELSE h2
    IN  IF 10 \in Range(ps) THEN [h3 EXCEPT !.flags = @ \cup {"HAS_10"}] ELSE h3

\* PlayerHand.evaluate
evaluate(h) ==
    LET ps == [i \in 1..Len(h.cards) |-> pip(h.cards[i])]
        h0 == [h EXCEPT !.pips = ps, !.value = SeqSum(ps), !.flags = {}]
        h1 == IF Len(ps) = 2 /\ ps[1] = ps[2]
              THEN [h0 EXCEPT !.flags = @ \cup {"PAIR"}] ELSE h0
        h2a == [h1 EXCEPT !.flags = @ \cup {"HAS_ACE"}]
        h2 == IF 11 \in Range(ps)
              THEN (IF minValue(h2a) < 21
                    THEN [h2a EXCEPT !.flags = @ \cup {"SOFT"}] ELSE h2a)
              ELSE h1
        h3 == IF bestValue(h2) > 21
              THEN [h2 EXCEPT !.flags = @ \cup {"BUST"}] ELSE h2
    IN  IF 10 \in Range(ps) THEN [h3 EXCEPT !.flags = @ \cup {"HAS_10"}] ELSE h3

\* PlayerHand.update
update(h, c) ==
    LET h1 == [h EXCEPT !.cards = Append(@, c)]
    IN  IF Len(h1.cards) >= 2 THEN evaluate(h1) ELSE h1

\* pop(0): the first card instead of the last
PoppedCard_first(h) == h.cards[1]

\* PlayerHand.split: cards.pop() returns the last card ...
PoppedCard(h) == h.cards[Len(h.cards)]
\* split handing out a copy: the card stays in the hand too
AfterPop_keep(h) == h

\* ... and leaves the rest; pips, value and flags are not re-evaluated
AfterPop(h) == [h EXCEPT !.cards = SubSeq(@, 1, Len(@) - 1)]

\* isBlackjack without the two-card test
Hand_isBlackjack_anyLen(h) == "HAS_10" \in h.flags /\ "HAS_ACE" \in h.flags

\* PlayerHand.isBlackjack
Hand_isBlackjack(h) ==
    Len(h.cards) = 2 /\ "HAS_10" \in h.flags /\ "HAS_ACE" \in h.flags

\* PlayerHand.isBust
Hand_isBust(h) == "BUST" \in h.flags

\* PlayerHand.isSoft
Hand_isSoft(h) == "SOFT" \in h.flags

(* ---------------------------- Player ----------------------------------- *)
\* Player.__init__; a name is the seat followed by the split suffixes
NewPlayer(name, bet) ==
    [name |-> name, bet |-> bet, hand |-> NewHand, choice |-> "NONE"]

\* Player.isDone
isDone(p) == p.choice \in {"DOUBLEDOWN", "STAND", "SURRENDER"}

\* Player.isBust
isBust(p) == Hand_isBust(p.hand)

\* Player.isBlackjack
isBlackjack(p) == Hand_isBlackjack(p.hand)

\* Player.isSurrendered
isSurrendered(p) == p.choice = "SURRENDER"

\* updateHand that stands on blackjack only
updateHand_noBust(p, c) ==
    LET p1 == [p EXCEPT !.hand = update(@, c)]
    IN  IF isBlackjack(p1) THEN [p1 EXCEPT !.choice = "STAND"] ELSE p1

\* Player.updateHand
updateHand(p, c) ==
    LET p1 == [p EXCEPT !.hand = update(@, c)]
    IN  IF isBust(p1) \/ isBlackjack(p1) THEN [p1 EXCEPT !.choice = "STAND"] ELSE p1

\* Player.split: the new player p2 ...
SplitSibling(p) ==
    updateHand(NewPlayer(Append(p.name, 2), p.bet), PoppedCard(p.hand))
\* ... and this player, renamed and reset
SplitOriginal(p) ==
    [p EXCEPT !.name = Append(@, 1), !.choice = "NONE", !.hand = AfterPop(@)]

(* ---------------------------- Dealer ----------------------------------- *)
\* Dealer.__init__ with DealerHand.__init__
NewDealer == [hand |-> NewHand, choice |-> "NONE", hidden |-> TRUE, hiddenIndex |-> 1]

\* Dealer.updateHand standing only above 17
Dealer_updateHand_gt(d, c) ==
    LET d1 == [d EXCEPT !.hand = update(@, c)]
    IN  IF bestValue(d1.hand) > 17
        THEN [d1 EXCEPT !.choice = "STAND"] ELSE [d1 EXCEPT !.choice = "HIT"]

\* Dealer.updateHand
Dealer_updateHand(d, c) ==
    LET d1 == [d EXCEPT !.hand = update(@, c)]
    IN  IF bestValue(d1.hand) >= 17
        THEN [d1 EXCEPT !.choice = "STAND"] ELSE [d1 EXCEPT !.choice = "HIT"]

\* Dealer.isDone
Dealer_isDone(d) == d.choice = "STAND"

\* Dealer.reveal
reveal(d) == [d EXCEPT !.hidden = FALSE, !.hiddenIndex = -1]

(* ---------------------------- Casino, GameDeck ------------------------- *)
\* Casino.__init__
min_bet == 5
max_bet == 500
\* takeNewBet: the amounts typed in, an odd one and an even one
BetsOffered == {min_bet, min_bet + 1}
\* Casino.newGame: range(min_bet, max_bet + 1), explored for the amounts offered
casinoBetRange ==
    {b \in min_bet..max_bet : b \in BetsOffered}

\* Suite has four members: Deck() holds one card of each value per suite
NSuites == 4
\* the numbers of decks and of players a game is constructed with
NDecksChoices == {0, 1}
NPlayersChoices == {1}

\* GameDeck.__init__: Deck().cards * nDecks, shuffled; kept as the number of
\* cards of each value still in the supply
NewDeck(nDecks) == [v \in Values |-> NSuites * nDecks]

RECURSIVE SumTo(_, _)
SumTo(f, v) == IF v \in Values THEN f[v] + SumTo(f, v - 1) ELSE 0
TopValue == SetMax(Values)
DeckSize(d) == SumTo(d, TopValue)

\* dealCard reading the last card without removing it
Take_keep(d, v) == d

\* GameDeck.dealCard: pop removes the dealt card from the supply
Take(d, v) == [d EXCEPT ![v] = @ - 1]

(* ---------------------------- BlackjackGame ---------------------------- *)
\* deck, players, dealer: the fields of BlackjackGame; dealt: the cards dealCard
\* has returned, in order (the consumed end of the shuffled list); pc, idx: the
\* position of playRound; decision: what resolveChoice returned in the current
\* iteration of resolveHand; wins, houseWin: the locals of resolveBets;
\* hand: a PlayerHand on its own, as test.py builds one; top: what the shuffle
\* left on top of the supply (the values of its first top.cap cards); placed:
\* the bets takeNewBet has read for each seat
VARIABLES deck, dealt, players, dealer, pc, idx, decision, wins, houseWin, hand,
          top, placed
gameVars == <<deck, dealt, players, dealer, pc, idx, decision, wins, houseWin,
              top, placed>>
vars == <<deck, dealt, players, dealer, pc, idx, decision, wins, houseWin, hand,
          top, placed>>

\* cards out of the supply
Dealt == Len(dealt)

\* the cards the shuffle may put on top of the supply
CanDeal(d, v) == v \in top.values /\ d[v] > 0

\* BlackjackGame.__init__, for a number of players among seats and a shuffle t
Setup(seats, t) ==
    /\ \E n \in NDecksChoices : deck = NewDeck(n)
    /\ dealt = <<>>
    /\ \E n \in seats :
         /\ players = [i \in 1..n |-> NewPlayer(<<i>>, 0)]
         /\ placed = [i \in 1..n |-> 0]
    /\ top = t
    /\ dealer = NewDealer
    /\ pc = "bets"
    /\ idx = 1
    /\ decision = "NONE"
    /\ wins = <<>>
    /\ houseWin = 0
    /\ hand = NewHand

Init == Setup(NPlayersChoices, [values |-> DealValues, cap |-> MaxDealt])

\* BlackjackGame.takeNewBet, in the first loop of playRound
TakeNewBet ==
    /\ pc = "bets"
    /\ \E bet \in casinoBetRange :
         /\ players' = [players EXCEPT ![idx].bet = @ + bet]
         /\ placed' = [placed EXCEPT ![idx] = @ + bet]
    /\ IF idx < Len(players)
       THEN idx' = idx + 1 /\ pc' = pc
       ELSE idx' = 1 /\ pc' = "deal1"
    /\ UNCHANGED <<deck, dealt, dealer, decision, wins, houseWin, hand, top>>

\* playRound: p.updateHand(self.deck.dealCard()) in the two dealing loops
DealPlayer ==
    /\ pc \in {"deal1", "deal2"}
    /\ Dealt < top.cap
    /\ \E v \in Values :
         /\ CanDeal(deck, v)
         /\ deck' = Take(deck, v)
         /\ dealt' = Append(dealt, v)
         /\ players' = [players EXCEPT ![idx] = updateHand(@, v)]
    /\ IF idx < Len(players)
       THEN idx' = idx + 1 /\ pc' = pc
       ELSE idx' = 1 /\ pc' = (IF pc = "deal1" THEN "dealer1" ELSE "dealer2")
    /\ UNCHANGED <<dealer, decision, wins, houseWin, hand, top, placed>>

\* playRound: self.dealer.updateHand(self.deck.dealCard()) after each loop
DealDealer ==
    /\ pc \in {"dealer1", "dealer2"}
    /\ Dealt < top.cap
    /\ \E v \in Values :
         /\ CanDeal(deck, v)
         /\ deck' = Take(deck, v)
         /\ dealt' = Append(dealt, v)
         /\ dealer' = Dealer_updateHand(dealer, v)
    /\ pc' = (IF pc = "dealer1" THEN "deal2" ELSE "resolve")
    /\ UNCHANGED <<players, idx, decision, wins, houseWin, hand, top, placed>>

\* the failed request swallowed: the round goes on to the dealer's turn
DealFromEmpty_swallowed ==
    /\ pc \in {"deal1", "dealer1", "deal2", "dealer2"}
    /\ DeckSize(deck) = 0
    /\ pc' = "dealer"
    /\ UNCHANGED <<deck, dealt, players, dealer, idx, decision, wins, houseWin, hand, top, placed>>

\* GameDeck.dealCard on an empty supply: list.pop raises, the round is aborted
DealFromEmpty ==
    /\ pc \in {"deal1", "dealer1", "deal2", "dealer2"}
    /\ DeckSize(deck) = 0
    /\ pc' = "error"
    /\ UNCHANGED <<deck, dealt, players, dealer, idx, decision, wins, houseWin, hand, top, placed>>

\* resolveChoice keeping DOUBLEDOWN and SURRENDER for a three-card hand
resolveChoice_late(p) ==
    IF isBlackjack(p) THEN {"STAND"}
    ELSE LET all == {"HIT", "STAND", "DOUBLEDOWN", "SPLIT", "SURRENDER"}
             v1 == IF "PAIR" \notin p.hand.flags THEN all \ {"SPLIT"} ELSE all
         IN  IF Len(p.hand.cards) > 3 THEN v1 \ {"DOUBLEDOWN", "SURRENDER"} ELSE v1

\* BlackjackGame.resolveChoice: the values it can return
resolveChoice(p) ==
    IF isBlackjack(p) THEN {"STAND"}
    ELSE LET all == {"HIT", "STAND", "DOUBLEDOWN", "SPLIT", "SURRENDER"}
             v1 == IF "PAIR" \notin p.hand.flags THEN all \ {"SPLIT"} ELSE all
         IN  IF Len(p.hand.cards) > 2 THEN v1 \ {"DOUBLEDOWN", "SURRENDER"} ELSE v1

\* the bet doubled whatever the choice
DoubleBet_always(p) == [p EXCEPT !.bet = @ * 2]

\* resolveHand: if p.choice == Choice.DOUBLEDOWN: p.bet *= 2
DoubleBet(p) == IF p.choice = "DOUBLEDOWN" THEN [p EXCEPT !.bet = @ * 2] ELSE p

\* the sibling appended at the end of the list
InsertAfter_end(s, i, p2) == Append(s, p2)

\* self.players.insert(self.players.index(p) + 1, p2)
InsertAfter(s, i, p2) == SubSeq(s, 1, i) \o <<p2>> \o SubSeq(s, i + 1, Len(s))

\* the player the sweep of playRound is at, not yet done
Deciding(c) ==
    /\ pc = "resolve"
    /\ idx <= Len(players)
    /\ ~isDone(players[idx])
    /\ c \in resolveChoice(players[idx])

\* what input() can hand to resolveChoice: a valid value, or anything else
Inputs == {"HIT", "STAND", "DOUBLEDOWN", "SPLIT", "SURRENDER", "INVALID"}

\* the input stored in p.choice before it is validated
Reject_assigning ==
    /\ pc = "resolve"
    /\ idx <= Len(players)
    /\ ~isDone(players[idx])
    /\ ~isBlackjack(players[idx])
    /\ Inputs \ resolveChoice(players[idx]) # {}
    /\ players' = [players EXCEPT ![idx].choice = "INVALID"]
    /\ decision' = "INVALID"
    /\ UNCHANGED <<deck, dealt, dealer, pc, idx, wins, houseWin, hand, top, placed>>

\* resolveChoice: an input outside validChoices keeps the while loop asking
Reject ==
    /\ pc = "resolve"
    /\ idx <= Len(players)
    /\ ~isDone(players[idx])
    /\ ~isBlackjack(players[idx])
    /\ Inputs \ resolveChoice(players[idx]) # {}
    /\ decision' = "INVALID"
    /\ UNCHANGED <<deck, dealt, players, dealer, pc, idx, wins, houseWin, hand, top, placed>>

\* resolveHand, one iteration with choice STAND
Stand ==
    /\ Deciding("STAND")
    /\ players' = [players EXCEPT ![idx].choice = "STAND"]
    /\ decision' = "STAND"
    /\ UNCHANGED <<deck, dealt, dealer, pc, idx, wins, houseWin, hand, top, placed>>

\* resolveHand, one iteration with choice SURRENDER
Surrender ==
    /\ Deciding("SURRENDER")
    /\ players' = [players EXCEPT ![idx].choice = "SURRENDER"]
    /\ decision' = "SURRENDER"
    /\ UNCHANGED <<deck, dealt, dealer, pc, idx, wins, houseWin, hand, top, placed>>

\* resolveHand, one iteration with choice HIT
Hit ==
    /\ Deciding("HIT")
    /\ Dealt < top.cap
    /\ \E v \in Values :
         /\ CanDeal(deck, v)
         /\ deck' = Take(deck, v)
         /\ dealt' = Append(dealt, v)
         /\ players' = [players EXCEPT
                ![idx] = DoubleBet(updateHand([@ EXCEPT !.choice = "HIT"], v))]
    /\ decision' = "HIT"
    /\ UNCHANGED <<dealer, pc, idx, wins, houseWin, hand, top, placed>>

\* resolveHand, one iteration with choice DOUBLEDOWN
DoubleDown ==
    /\ Deciding("DOUBLEDOWN")
    /\ Dealt < top.cap
    /\ \E v \in Values :
         /\ CanDeal(deck, v)
         /\ deck' = Take(deck, v)
         /\ dealt' = Append(dealt, v)
         /\ players' = [players EXCEPT
                ![idx] = DoubleBet(updateHand([@ EXCEPT !.choice = "DOUBLEDOWN"], v))]
    /\ decision' = "DOUBLEDOWN"
    /\ UNCHANGED <<dealer, pc, idx, wins, houseWin, hand, top, placed>>

\* resolveHand, one iteration with choice SPLIT
Split ==
    /\ Deciding("SPLIT")
    /\ Dealt + 1 < top.cap
    /\ \E v1, v2 \in Values :
         /\ CanDeal(deck, v1)
         /\ CanDeal(Take(deck, v1), v2)
         /\ deck' = Take(Take(deck, v1), v2)
         /\ dealt' = dealt \o <<v1, v2>>
         /\ LET p  == [players[idx] EXCEPT !.choice = "SPLIT"]
                p2 == SplitSibling(p)
                p1 == SplitOriginal(p)
            IN  players' = InsertAfter([players EXCEPT ![idx] = updateHand(p1, v1)],
                                       idx, updateHand(p2, v2))
    /\ decision' = "SPLIT"
    /\ UNCHANGED <<dealer, pc, idx, wins, houseWin, hand, top, placed>>

\* playRound: the sweep moves on from a player that is done
NextPlayer ==
    /\ pc = "resolve"
    /\ idx <= Len(players)
    /\ isDone(players[idx])
    /\ idx' = idx + 1
    /\ decision' = "NONE"
    /\ UNCHANGED <<deck, dealt, players, dealer, pc, wins, houseWin, hand, top, placed>>

\* the reveal as soon as the sweep reaches the last player
Reveal_early ==
    /\ pc = "resolve"
    /\ idx >= Len(players)
    /\ dealer' = reveal(dealer)
    /\ pc' = "dealer"
    /\ UNCHANGED <<deck, dealt, players, idx, decision, wins, houseWin, hand, top, placed>>

\* playRound: self.dealer.reveal() once the sweep is over
Reveal ==
    /\ pc = "resolve"
    /\ idx > Len(players)
    /\ dealer' = reveal(dealer)
    /\ pc' = "dealer"
    /\ UNCHANGED <<deck, dealt, players, idx, decision, wins, houseWin, hand, top, placed>>

\* playRound: while not self.dealer.isDone(): dealer.updateHand(dealCard())
DealerDraw ==
    /\ pc = "dealer"
    /\ ~Dealer_isDone(dealer)
    /\ Dealt < top.cap
    /\ \E v \in Values :
         /\ CanDeal(deck, v)
         /\ deck' = Take(deck, v)
         /\ dealt' = Append(dealt, v)
         /\ dealer' = Dealer_updateHand(dealer, v)
    /\ UNCHANGED <<players, pc, idx, decision, wins, houseWin, hand, top, placed>>

\* Python's bool compared as int (False = 0, True = 1)
B2I(b) == IF b THEN 1 ELSE 0

\* int(1.5 * bet) for a bet >= 0
Int15(bet) == (3 * bet) \div 2
\* int(0.5 * bet) for a bet >= 0
Int05(bet) == bet \div 2

\* the chain without the dealer-blackjack test of its fifth branch
WinOf_noDealerBJ(p, dealerBust, dealerBlackjack, dealerHandValue) ==
    IF isBust(p) THEN -p.bet
    ELSE IF B2I(isBlackjack(p)) > B2I(dealerBlackjack) THEN Int15(p.bet)
    ELSE IF isSurrendered(p) THEN -Int05(p.bet)
    ELSE IF dealerBust \/ bestValue(p.hand) > dealerHandValue THEN p.bet
    ELSE IF bestValue(p.hand) < dealerHandValue THEN -p.bet
    ELSE 0

\* resolveBets: the if/elif chain that sets wins[p]
WinOf(p, dealerBust, dealerBlackjack, dealerHandValue) ==
    IF isBust(p) THEN -p.bet
    ELSE IF B2I(isBlackjack(p)) > B2I(dealerBlackjack) THEN Int15(p.bet)
    ELSE IF isSurrendered(p) THEN -Int05(p.bet)
    ELSE IF dealerBust \/ bestValue(p.hand) > dealerHandValue THEN p.bet
    ELSE IF \/ bestValue(p.hand) < dealerHandValue
            \/ B2I(isBlackjack(p)) < B2I(dealerBlackjack) THEN -p.bet
    ELSE 0

\* resolveBets summing the first player's win only
ResolveBets_firstOnly ==
    /\ pc = "dealer"
    /\ Dealer_isDone(dealer)
    /\ wins' = [i \in 1..Len(players) |->
                  WinOf(players[i], Hand_isBust(dealer.hand),
                        Hand_isBlackjack(dealer.hand), bestValue(dealer.hand))]
    /\ houseWin' = -wins'[1]
    /\ pc' = "done"
    /\ UNCHANGED <<deck, dealt, players, dealer, idx, decision, hand, top, placed>>

\* playRound: self.resolveBets() once the dealer is done
ResolveBets ==
    /\ pc = "dealer"
    /\ Dealer_isDone(dealer)
    /\ wins' = [i \in 1..Len(players) |->
                  WinOf(players[i], Hand_isBust(dealer.hand),
                        Hand_isBlackjack(dealer.hand), bestValue(dealer.hand))]
    /\ houseWin' = -SeqSum(wins')
    /\ pc' = "done"
    /\ UNCHANGED <<deck, dealt, players, dealer, idx, decision, hand, top, placed>>

Next ==
    \/ TakeNewBet
    \/ DealPlayer
    \/ DealDealer
    \/ DealFromEmpty
    \/ Reject
    \/ Stand
    \/ Surrender
    \/ Hit
    \/ DoubleDown
    \/ Split
    \/ NextPlayer
    \/ Reveal
    \/ DealerDraw
    \/ ResolveBets

Spec == Init /\ [][Next]_vars

(* ------------- rounds in which a split hand can be split again --------- *)
\* shuffle: Aces, Tens and Kings only among the first MaxDealt + 1 cards, one seat
ResplitValues == {11, 10, 14}
ResplitSeats == {1}
\* shuffle: the Tens and the Fives are the first cards, one seat or two
TableValues == {10, 5}
TableSeats == {1, 2}

InitResplit ==
    \/ Setup(ResplitSeats, [values |-> ResplitValues, cap |-> MaxDealt + 1])
    \/ Setup(TableSeats, [values |-> TableValues, cap |-> MaxDealt + 1])
SpecResplit == InitResplit /\ [][Next]_vars

(* ------------------- a PlayerHand on its own (test.py) ----------------- *)
\* ph = PlayerHand(), no game being played
HandInit ==
    /\ hand = NewHand
    /\ deck = NewDeck(0)
    /\ dealt = <<>>
    /\ players = <<>>
    /\ dealer = NewDealer
    /\ pc = "hand"
    /\ idx = 1
    /\ decision = "NONE"
    /\ wins = <<>>
    /\ houseWin = 0
    /\ top = [values |-> {}, cap |-> 0]
    /\ placed = <<>>

\* ph.update(c) for any card
HandUpdate ==
    /\ Len(hand.cards) < MaxHandLen
    /\ \E v \in Values : hand' = update(hand, v)
    /\ UNCHANGED gameVars

\* ph.split() on a pair, as Player.split calls it
HandSplit ==
    /\ Len(hand.cards) = 2
    /\ "PAIR" \in hand.flags
    /\ hand' = AfterPop(hand)
    /\ UNCHANGED gameVars

HandNext ==
    \/ HandUpdate
    \/ HandSplit

SpecHand == HandInit /\ [][HandNext]_vars

(* ======================= properties of the round ======================= *)
\* the player resolveHand is deciding for, before and after the step
Before == players[idx]
After == players'[idx]

\* C1: a DOUBLEDOWN decision draws exactly one card into the hand, makes the
\* bet exactly twice what it was and leaves the player done, whatever the
\* two-card hand and the drawn card, a card that busts the hand included.
C1_DoubleDownDoublesBet ==
    [][decision' = "DOUBLEDOWN" =>
         /\ Len(players') = Len(players)
         /\ Len(Before.hand.cards) = 2
         /\ After.hand.cards = Append(Before.hand.cards, dealt'[Len(dealt')])
         /\ Len(dealt') = Len(dealt) + 1
         /\ isDone(After)
         /\ After.bet = 2 * Before.bet]_vars

\* the statuses resolveBets reads
DealerBust == Hand_isBust(dealer.hand)
DealerBlackjack == Hand_isBlackjack(dealer.hand)
DealerValue == bestValue(dealer.hand)

\* w is floor(x / 2)
IsHalfFloor(w, x) == 2 * w <= x /\ x < 2 * w + 2

\* C2: at settlement every player's win is that of the first matching rule:
\* (1) bust -> -bet; (2) blackjack against no dealer blackjack -> floor(1.5 bet);
\* (3) surrendered -> -floor(0.5 bet); (4) dealer bust or higher best value
\* -> +bet; (5) lower best value, or dealer blackjack against none -> -bet;
\* (6) otherwise 0. A 21 that is no blackjack loses to a dealer blackjack and
\* blackjack against blackjack is a push.
C2_FirstMatchingRule ==
    pc = "done" =>
      /\ Len(wins) = Len(players)
      /\ \A i \in 1..Len(players) :
           LET p == players[i]
               w == wins[i]
               pv == bestValue(p.hand)
               r1 == isBust(p)
               r2 == isBlackjack(p) /\ ~DealerBlackjack
               r3 == p.choice = "SURRENDER"
               r4 == DealerBust \/ pv > DealerValue
               r5 == pv < DealerValue \/ (DealerBlackjack /\ ~isBlackjack(p))
           IN  /\ r1 => w = -p.bet
               /\ ~r1 /\ r2 => IsHalfFloor(w, 3 * p.bet)
               /\ ~r1 /\ ~r2 /\ r3 => IsHalfFloor(-w, p.bet)
               /\ ~r1 /\ ~r2 /\ ~r3 /\ r4 => w = p.bet
               /\ ~r1 /\ ~r2 /\ ~r3 /\ ~r4 /\ r5 => w = -p.bet
               /\ ~r1 /\ ~r2 /\ ~r3 /\ ~r4 /\ ~r5 => w = 0
               /\ (pv = 21 /\ ~isBlackjack(p) /\ ~r3 /\ DealerBlackjack) => w = -p.bet
               /\ (isBlackjack(p) /\ DealerBlackjack) => w = 0

\* settled: a three-card 21 has lost its bet to a dealer blackjack
C2_Witness ==
    /\ pc = "done"
    /\ DealerBlackjack
    /\ \E i \in 1..Len(players) :
         /\ bestValue(players[i].hand) = 21
         /\ ~isBlackjack(players[i])
         /\ players[i].choice = "STAND"
         /\ wins[i] = -players[i].bet

\* C3: a SPLIT of a two-card pair gives two players: the original keeps the
\* first card and the sibling, next in the sequence, holds the second; each
\* then gets one freshly dealt card, the original first, so both hold two
\* cards; the original's bet is unchanged and the sibling's bet equals it.
C3_SplitResult ==
    [][decision' = "SPLIT" =>
         LET sib == players'[idx + 1]
         IN  /\ Len(players') = Len(players) + 1
             /\ Len(Before.hand.cards) = 2
             /\ pip(Before.hand.cards[1]) = pip(Before.hand.cards[2])
             /\ Len(dealt') = Len(dealt) + 2
             /\ After.hand.cards = <<Before.hand.cards[1], dealt'[Len(dealt) + 1]>>
             /\ sib.hand.cards = <<Before.hand.cards[2], dealt'[Len(dealt) + 2]>>
             /\ After.bet = Before.bet
             /\ sib.bet = Before.bet]_vars

\* just split: a pair of two different ten-valued cards, two different fresh cards
C3_Witness ==
    /\ decision = "SPLIT"
    /\ idx < Len(players)
    /\ players[idx].hand.cards[1] # players[idx + 1].hand.cards[1]
    /\ players[idx].hand.cards[2] # players[idx + 1].hand.cards[2]
    /\ Len(players[idx].hand.cards) = 2
    /\ Len(players[idx + 1].hand.cards) = 2
    /\ players[idx + 1].bet = players[idx].bet

\* a hand on which updateHand forces STAND
Terminal(p) == isBust(p) \/ isBlackjack(p)

\* C4: in every state of a round a player whose hand is bust or blackjack has
\* action STAND, and from then on is never asked for a decision nor dealt a card.
C4_TerminalHandStands ==
    /\ [](\A i \in 1..Len(players) : Terminal(players[i]) => players[i].choice = "STAND")
    /\ [][/\ \A i \in 1..Len(players) :
               Terminal(players[i]) => \E j \in 1..Len(players') : players'[j] = players[i]
          /\ decision' # "NONE" => ~Terminal(Before)]_vars

\* a HIT has just busted the hand and the player stands
C4_Witness ==
    /\ decision = "HIT"
    /\ isBust(players[idx])
    /\ players[idx].choice = "STAND"

\* C5: after each card the dealer's action is STAND if bestValue() >= 17 and
\* HIT otherwise; the dealer draws only while its bestValue() is below 17, and
\* at settlement its bestValue() is at least 17.
C5_DealerRule ==
    /\ [](/\ Len(dealer.hand.cards) >= 1 =>
               dealer.choice = (IF DealerValue >= 17 THEN "STAND" ELSE "HIT")
          /\ pc = "done" => DealerValue >= 17 /\ (DealerBust <=> DealerValue > 21))
    /\ [][dealer'.hand # dealer.hand => DealerValue < 17]_vars

\* settled after the dealer drew beyond its two cards
C5_Witness ==
    /\ pc = "done"
    /\ Len(dealer.hand.cards) >= 3
    /\ DealerValue >= 17

\* C6: SPLIT is only accepted for two cards of equal pip value, DOUBLEDOWN and
\* SURRENDER only for a two-card hand; a player whose action is SURRENDER holds
\* two cards and one whose action is DOUBLEDOWN holds three.
C6_FirstDecisionOnly ==
    /\ [](\A i \in 1..Len(players) :
            /\ players[i].choice = "SURRENDER" => Len(players[i].hand.cards) = 2
            /\ players[i].choice = "DOUBLEDOWN" => Len(players[i].hand.cards) = 3)
    /\ [][/\ decision' = "SPLIT" =>
               /\ Len(Before.hand.cards) = 2
               /\ pip(Before.hand.cards[1]) = pip(Before.hand.cards[2])
          /\ decision' \in {"DOUBLEDOWN", "SURRENDER"} =>
               Len(Before.hand.cards) = 2]_vars

\* a player has doubled down after a split, another has surrendered
C6_Witness ==
    /\ \E i \in 1..Len(players) :
         players[i].choice = "DOUBLEDOWN" /\ Len(players[i].name) > 1
    /\ \E i \in 1..Len(players) : players[i].choice = "SURRENDER"

\* the players of ps still to finish their turn
Undone(ps) == Cardinality({i \in 1..Len(ps) : ~isDone(ps[i])})

\* the steps of playRound still ahead at position ph, as a rank
PhaseRank(ph) ==
    CASE ph = "bets" -> 7
      [] ph = "deal1" -> 6
      [] ph = "dealer1" -> 5
      [] ph = "deal2" -> 4
      [] ph = "dealer2" -> 3
      [] ph = "resolve" -> 2
      [] ph = "dealer" -> 1
      [] OTHER -> 0

\* supply d2 is supply d1 with at least one card taken and none added
FewerCards(d2, d1) == d2 # d1 /\ \A v \in Values : d2[v] <= d1[v]

\* what is left of the sweep: the players not done and the positions ahead
SweepLeft(ps, i) == Undone(ps) + (Len(ps) + 1 - i)

\* the variant of a round, in lexicographic order: the phase, then the cards
\* left in the supply, then what is left of the sweep
Lower(ph2, d2, ps2, i2, ph1, d1, ps1, i1) ==
    \/ PhaseRank(ph2) < PhaseRank(ph1)
    \/ /\ ph2 = ph1
       /\ \/ FewerCards(d2, d1)
          \/ d2 = d1 /\ SweepLeft(ps2, i2) < SweepLeft(ps1, i1)

\* C11: a round runs to completion: every step taken on a valid input lowers
\* a variant whose parts are never negative, so no turn, chain of splits or
\* dealer loop goes on forever; every HIT and SPLIT takes at least one card
\* from the supply, which never grows; a player who is asked always has a
\* valid decision to give; and nothing follows settlement or the abort.
C11_RunsToCompletion ==
    /\ [](/\ \A v \in Values : deck[v] >= 0
          /\ Undone(players) >= 0 /\ idx <= Len(players) + 1
          /\ (pc = "resolve" /\ idx <= Len(players) /\ ~isDone(players[idx])) =>
                {"HIT", "STAND"} \subseteq resolveChoice(players[idx]))
    /\ [][/\ decision' # "INVALID" =>
               Lower(pc', deck', players', idx', pc, deck, players, idx)
          /\ deck' = deck \/ FewerCards(deck', deck)
          /\ decision' \in {"HIT", "SPLIT"} => FewerCards(deck', deck)
          /\ pc \in {"done", "error"} => FALSE]_vars

\* settled after a split and a further card to one of the two hands
C11_Witness ==
    /\ pc = "done"
    /\ Len(players) >= 2
    /\ \E i \in 1..Len(players) : Len(players[i].hand.cards) >= 3

\* the cards of all hands
CardsHeld ==
    <<[i \in 1..Len(players) |-> players[i].hand.cards], dealer.hand.cards>>

C13_InvalidRejected ==
    /\ [](decision = "INVALID" =>
            pc = "resolve" /\ idx <= Len(players) /\ ~isDone(players[idx]))
    /\ [][/\ decision' = "INVALID" =>
               UNCHANGED <<players, deck, dealt, dealer, pc, idx, wins, houseWin, placed>>
          /\ decision = "INVALID" =>
               decision' \in resolveChoice(Before) \cup {"INVALID"}
          /\ decision' \notin {"NONE", "INVALID"} =>
               decision' \in resolveChoice(Before)]_vars

\* an input was rejected for a three-card hand
C13_Witness ==
    /\ decision = "INVALID"
    /\ Len(players[idx].hand.cards) = 3
    /\ players[idx].choice = "HIT"

\* C14: at settlement the house's result is minus the sum of the wins of all
\* players of the final sequence, split siblings included, each counted once.
C14_HouseZeroSum ==
    pc = "done" =>
      /\ Len(wins) = Len(players)
      /\ \A i \in 1..Len(players) :
           wins[i] = WinOf(players[i], DealerBust, DealerBlackjack, DealerValue)
      /\ houseWin + SeqSum(wins) = 0

\* settled with three players after splits, their wins differing, the house not even
C14_Witness ==
    /\ pc = "done"
    /\ Len(players) = 3
    /\ wins[1] # wins[2]
    /\ wins[3] # 0
    /\ houseWin # 0
    /\ houseWin = -(wins[1] + wins[2] + wins[3])

\* all players of the sequence are done
AllDone == \A i \in 1..Len(players) : isDone(players[i])

\* C15: the hidden card is revealed, and the dealer gets a card beyond its
\* first two, only after every player of the sequence, siblings and siblings
\* of siblings included, is done; at settlement every player's action is
\* STAND, DOUBLEDOWN or SURRENDER and every player holds at least two cards.
C15_DealerAfterPlayers ==
    /\ [](/\ (~dealer.hidden \/ Len(dealer.hand.cards) > 2) => AllDone
          /\ pc = "done" =>
               \A i \in 1..Len(players) :
                 /\ players[i].choice \in {"STAND", "DOUBLEDOWN", "SURRENDER"}
                 /\ Len(players[i].hand.cards) >= 2)
    /\ [][(dealer'.hidden # dealer.hidden \/ Len(dealer'.hand.cards) > 2) =>
            AllDone /\ players' = players]_vars

\* settled after a split of a split hand, the dealer's cards shown
C15_Witness ==
    /\ pc = "done"
    /\ ~dealer.hidden
    /\ \E i \in 1..Len(players) : Len(players[i].name) = 3

\* the names of the players, in the order of the sequence
Names == [i \in 1..Len(players) |-> players[i].name]

\* name a comes before name b: seats in order, an original before its sibling
Precedes(a, b) ==
    \E k \in 1..Len(a) :
      k <= Len(b) /\ SubSeq(a, 1, k - 1) = SubSeq(b, 1, k - 1) /\ a[k] < b[k]

\* a player who has not been asked yet: the two cards dealt and the bet
\* placed, no action or the automatic STAND of a blackjack
NotAskedYet(p) ==
    /\ Len(p.hand.cards) = 2
    /\ p.bet = placed[p.name[1]]
    /\ p.choice = "NONE" \/ (p.choice = "STAND" /\ isBlackjack(p))

\* C16: on SPLIT the sibling is placed right after the original and the other
\* players keep their places in order; the sweep takes the original to done,
\* then the sibling, before a player seated after them is asked: during the
\* sweep all players before the current one are done and none after it has
\* been asked; the same holds when a split hand is split again.
C16_SweepOrder ==
    /\ [](/\ \A i, j \in 1..Len(players) :
               i < j => Precedes(players[i].name, players[j].name)
          /\ pc = "resolve" =>
               /\ \A j \in 1..Len(players) : j < idx => isDone(players[j])
               /\ \A j \in 1..Len(players) : j > idx => NotAskedYet(players[j]))
    /\ [][/\ decision' = "SPLIT" =>
               /\ idx' = idx
               /\ Len(players') = Len(players) + 1
               /\ players'[idx].name = Append(players[idx].name, 1)
               /\ players'[idx + 1].name = Append(players[idx].name, 2)
               /\ \A j \in 1..Len(players) :
                    /\ j < idx => players'[j] = players[j]
                    /\ j > idx => players'[j + 1] = players[j]
          /\ (decision' # "SPLIT" /\ pc # "bets") => Names' = Names
          /\ decision' \notin {"NONE", "INVALID"} =>
               \A j \in 1..Len(players) : j # idx => players[j] \in Range(players')]_vars

\* a split hand was split again and both halves played; the player seated
\* after them is now being asked
C16_Witness ==
    /\ pc = "resolve"
    /\ Names = <<(<<1, 1, 1>>), (<<1, 1, 2>>), (<<1, 2>>)>>
    /\ idx = 3
    /\ decision \in {"HIT", "STAND"}

\* a split at the first of two seats; the second seat is asked last
C16_WitnessSeats ==
    /\ pc = "resolve"
    /\ Names = <<(<<1, 1>>), (<<1, 2>>), (<<2>>)>>
    /\ idx = 3
    /\ decision = "STAND"

\* the number of cards of value v in the sequence of cards cs
CountIn(cs, v) == Cardinality({i \in 1..Len(cs) : cs[i] = v})

\* the cards in the hands of the players from position i on
RECURSIVE CardsFrom(_, _)
CardsFrom(ps, i) ==
    IF i > Len(ps) THEN <<>> ELSE ps[i].hand.cards \o CardsFrom(ps, i + 1)

\* the cards in all hands, the dealer's last
CardsInHands == CardsFrom(players, 1) \o dealer.hand.cards

\* supply d with the cards cs taken out
RECURSIVE Without(_, _)
Without(d, cs) ==
    IF cs = <<>> THEN d
    ELSE Without([d EXCEPT ![Head(cs)] = @ - 1], Tail(cs))

\* C19: cards are conserved: the cards in the players' and the dealer's hands
\* are the cards dealt, each of them once, and the supply is the initial
\* supply without them; a step takes from the supply exactly the cards it
\* deals, and a split moves a card between hands without copying or losing it.
C19_CardsConserved ==
    /\ [](/\ Len(CardsInHands) = Len(dealt)
          /\ \A v \in Range(dealt) \cup Range(CardsInHands) :
               CountIn(CardsInHands, v) = CountIn(dealt, v)
          /\ \E n \in NDecksChoices : deck = Without(NewDeck(n), dealt))
    /\ [][/\ Len(dealt') >= Len(dealt)
          /\ SubSeq(dealt', 1, Len(dealt)) = dealt
          /\ deck' = Without(deck, SubSeq(dealt', Len(dealt) + 1, Len(dealt')))]_vars

\* a split hand was just split again: eight cards dealt, two in each hand
C19_Witness ==
    /\ decision = "SPLIT"
    /\ Len(players) = 3
    /\ Dealt = 8
    /\ \A i \in 1..Len(players) : Len(players[i].hand.cards) = 2

\* where the player at position j is after the step: a split moves the
\* players behind the one who splits one place on
Pos(j) == IF decision' = "SPLIT" /\ j > idx THEN j + 1 ELSE j

\* the bet placed at the seat of player p
PlacedFor(p) == placed[p.name[1]]

\* C20: once the bets are placed a bet changes only by DOUBLEDOWN, and then
\* to twice its amount; a sibling takes over the bet of its original; a
\* decision leaves every other player as it was; the steps that are not a
\* decision or a deal leave all players as they were; so every bet is the
\* bet placed at its seat or twice that, at settlement too.
C20_BetFrame ==
    /\ [](pc # "bets" =>
            \A i \in 1..Len(players) :
              players[i].bet \in {PlacedFor(players[i]), 2 * PlacedFor(players[i])})
    /\ [][pc # "bets" =>
            /\ placed' = placed
            /\ \A j \in 1..Len(players) :
                 /\ players'[Pos(j)].bet # players[j].bet =>
                      /\ j = idx /\ decision' = "DOUBLEDOWN"
                      /\ players'[j].bet = 2 * players[j].bet
                 /\ (decision' \notin {"NONE", "INVALID"} /\ j # idx) =>
                      players'[Pos(j)] = players[j]
            /\ decision' = "SPLIT" => players'[idx + 1].bet = players[idx].bet
            /\ (decision' \in {"NONE", "INVALID"} /\ pc \notin {"deal1", "deal2"}) =>
                 players' = players]_vars

\* settled with two seats: one bet doubled, the other as placed
C20_Witness ==
    /\ pc = "done"
    /\ Len(placed) = 2
    /\ \E i \in 1..Len(players) : players[i].bet = 2 * PlacedFor(players[i])
    /\ \E i \in 1..Len(players) : players[i].bet = PlacedFor(players[i])

(* ======================= properties of a hand ========================== *)
\* the hand holds at least two cards, so update has run evaluate on them
Evaluated == Len(hand.cards) >= 2

\* the number of Aces among the cards
AceCount == Cardinality({i \in 1..Len(hand.cards) : hand.cards[i] = ACE})

\* card values counted as Ten, Jack, Queen and King
TenValued == {10, 12, 13, 14}

\* the sum over the cards with an Ace at 11, a court card at 10, the rest at face
PipSum ==
    SeqSum([i \in 1..Len(hand.cards) |->
              IF hand.cards[i] = ACE THEN 11
              ELSE IF hand.cards[i] \in TenValued THEN 10 ELSE hand.cards[i]])

\* the same cards in any order
SameCards(cs) ==
    /\ Len(hand.cards) = Len(cs)
    /\ \A v \in Values :
         Cardinality({i \in 1..Len(cs) : hand.cards[i] = v})
           = Cardinality({i \in 1..Len(cs) : cs[i] = v})

\* C7 as stated: an evaluated hand with exactly one Ace has bestValue() equal
\* to rawValue when rawValue <= 21 and to rawValue - 10 otherwise.
C7_OneAceAsStated ==
    (Evaluated /\ AceCount = 1) =>
        bestValue(hand) = (IF hand.value <= 21 THEN hand.value ELSE hand.value - 10)

\* C7 amended: an evaluated hand with exactly one Ace has bestValue() equal to
\* rawValue when rawValue <= 21, to rawValue - 10 when rawValue > 21 and
\* rawValue - 10 <= 21, and to rawValue when rawValue - 10 > 21 (the hand is bust).
C7_OneAce ==
    (Evaluated /\ AceCount = 1) =>
        /\ hand.value = PipSum
        /\ bestValue(hand) = (IF hand.value <= 21 THEN hand.value
                              ELSE IF hand.value - 10 <= 21 THEN hand.value - 10
                              ELSE hand.value)

\* one Ace, bust even with the Ace at 1: the best value is the raw value
C7_Witness ==
    /\ Evaluated
    /\ AceCount = 1
    /\ hand.value - 10 > 21
    /\ bestValue(hand) = hand.value

\* the candidate totals: rawValue less 10 for 0, 1, .. all of the Aces
Candidates == {hand.value - 10 * j : j \in 0..AceCount}

\* C8: an evaluated hand is bust exactly when every candidate total exceeds 21
\* (minValue() > 21); when not bust bestValue() is the largest candidate <= 21,
\* when bust it is rawValue; {King, Queen, Two} has bestValue() 22 and is bust.
C8_BustAndBest ==
    Evaluated =>
        /\ Hand_isBust(hand) <=> (\A c \in Candidates : c > 21)
        /\ Hand_isBust(hand) <=> minValue(hand) > 21
        /\ ~Hand_isBust(hand) =>
             /\ bestValue(hand) \in Candidates
             /\ bestValue(hand) <= 21
             /\ \A c \in Candidates : c <= 21 => c <= bestValue(hand)
        /\ Hand_isBust(hand) => bestValue(hand) = hand.value
        /\ SameCards(<<14, 13, 2>>) => bestValue(hand) = 22 /\ Hand_isBust(hand)

\* King, Queen, Two
C8_Witness ==
    /\ hand.cards = <<14, 13, 2>>
    /\ bestValue(hand) = 22
    /\ Hand_isBust(hand)

\* C9: for an evaluated hand with k Aces allValues() is rawValue (the pip sum
\* with every Ace at 11) followed by one total per Ace, each 10 less than the
\* one before; minValue() is rawValue - 10 k; {Ace, Ace, Nine} gives
\* [31, 21, 11] and bestValue() 21.
C9_AllValues ==
    Evaluated =>
        /\ allValues(hand) = [j \in 1..(AceCount + 1) |-> PipSum - 10 * (j - 1)]
        /\ minValue(hand) = PipSum - 10 * AceCount
        /\ SameCards(<<11, 11, 9>>) =>
             allValues(hand) = <<31, 21, 11>> /\ bestValue(hand) = 21

\* Ace, Ace, Nine
C9_Witness ==
    /\ hand.cards = <<11, 11, 9>>
    /\ allValues(hand) = <<31, 21, 11>>
    /\ bestValue(hand) = 21

\* exactly two cards, one an Ace and the other Ten, Jack, Queen or King
AceAndTen ==
    /\ Len(hand.cards) = 2
    /\ \E i, j \in 1..2 : i # j /\ hand.cards[i] = ACE /\ hand.cards[j] \in TenValued

\* C10: isBlackjack() is true exactly for a two-card hand of an Ace and a
\* ten-valued card, in either order; such a hand has bestValue() 21 and is not
\* bust; no hand of three or more cards totalling 21 is a blackjack.
C10_Blackjack ==
    /\ Hand_isBlackjack(hand) <=> AceAndTen
    /\ AceAndTen => bestValue(hand) = 21 /\ ~Hand_isBust(hand)
    /\ (Len(hand.cards) >= 3 /\ bestValue(hand) = 21) => ~Hand_isBlackjack(hand)

\* King then Ace
C10_Witness ==
    /\ hand.cards = <<14, 11>>
    /\ Hand_isBlackjack(hand)
    /\ bestValue(hand) = 21

\* C17 as stated: a hand flagged SOFT has an Ace counted as 11 in its best
\* value: bestValue() is greater than minValue() and at most 21.
C17_SoftAceAtEleven ==
    Hand_isSoft(hand) => bestValue(hand) > minValue(hand) /\ bestValue(hand) <= 21

\* C18 as stated: a hand that holds exactly one card has rawValue 0 and no
\* flags set, the hand left by split() included.
C18_OneCardHandBlank ==
    Len(hand.cards) = 1 => hand.value = 0 /\ hand.flags = {}

====
